---- MODULE Spec2Model ----
(***************************************************************************)
(* A model of code_checker.py: the plugin registry of CodeChecker, the      *)
(* three plugins (PylintPlugin, Flake8Plugin, PyDocStylePlugin) and main.   *)
(*                                                                          *)
(* Decimal numbers are integers in hundredths (8.0 is 800, -1.0 is -100).   *)
(* A text is a sequence of one-character strings.  The standard output of   *)
(* an external tool is a record [file, body, line, val]: `file' is the      *)
(* position of the file it was run on, `body' says whether the text is      *)
(* empty, `line' is the text that stands between "Your code has been rated  *)
(* at " and "/10" (<<>> when the output has no such line) and `val' is the  *)
(* number that the tool wrote there (what the tool meant, never read by the *)
(* program: the program reads `line').                                      *)
(*                                                                          *)
(* A run starts in one of three ways: main (the command line), a client of  *)
(* CodeChecker (register_plugin calls, then run_check), or a client of one  *)
(* plugin class (construct, assign the instance attributes, call check).    *)
(***************************************************************************)
EXTENDS Integers, Sequences, FiniteSets

\* ------------------------------------------------------------------ bounds

\* The largest number of .py files a directory holds.
MaxFiles == 3
\* The largest number of register_plugin calls a client of CodeChecker makes.
MaxRegs == 3

\* ------------------------------------------------------- program constants

\* PylintPlugin.__init__: self.scorelimit = -1.0
DefaultScoreLimit == -100
\* "if float(score) >= 8.0"
EightLimit == 800
\* "if float(score) >= 9.0"
NineLimit == 900

\* ------------------------------------------------------------------ inputs

\* The names main registers, which are also argparse's choices for --tool.
ToolNames == {"pylint", "flake8", "pydocstyle"}
\* The plugin classes.
Factories == {"PylintPlugin", "Flake8Plugin", "PyDocStylePlugin"}
\* The names a client of CodeChecker registers and asks for.
ClientNames == {"pylint", "flake8", "docs"}

\* Python values of `optional': the attribute is missing, None, a float, a str.
Absent == [t |-> "absent", v |-> 0]
NoneOpt == [t |-> "None", v |-> 0]
FloatOpt(x) == [t |-> "float", v |-> x]
StrOpt(x) == [t |-> "str", v |-> x]

\* What argparse gives for -S/--scores-less-than: None or the string typed.
CliOptionals == {NoneOpt, StrOpt(750)}
\* What a client of a plugin finds or assigns as the instance's `optional'.
PluginOptionals == {Absent, NoneOpt, FloatOpt(750), FloatOpt(0), StrOpt(750)}
\* The floors a client of PylintPlugin assigns to scorelimit.
ScoreLimits == {DefaultScoreLimit, 600, 850}

\* The rating lines pylint writes, with the number each one states.
RatingLines ==
    { [line |-> <<"9", ".", "1", "0">>, val |-> 910],
      [line |-> <<"9", ".", "0", "0">>, val |-> 900],
      [line |-> <<"8", ".", "2">>, val |-> 820],
      [line |-> <<"8", ".", "0", "0">>, val |-> 800],
      [line |-> <<"7", ".", "9", "0">>, val |-> 790],
      [line |-> <<"7", ".", "5", "0">>, val |-> 750],
      [line |-> <<"6", ".", "0", "0">>, val |-> 600],
      [line |-> <<"5", ".", "5", "0">>, val |-> 550],
      [line |-> <<"-", "2", ".", "5", "0">>, val |-> -250] }

\* The standard outputs of pylint on the file at position f.
PylintOutputs(f) ==
    { [file |-> f, body |-> "text", line |-> r.line, val |-> r.val] : r \in RatingLines }
    \cup { [file |-> f, body |-> "text", line |-> <<>>, val |-> 0],
           [file |-> f, body |-> "empty", line |-> <<>>, val |-> 0] }

\* The standard outputs of flake8 and pydocstyle (one run on the whole target).
StyleOutputs ==
    { [file |-> 0, body |-> "text", line |-> <<>>, val |-> 0],
      [file |-> 0, body |-> "empty", line |-> <<>>, val |-> 0] }

\* -------------------------------------------------------- pure operations

Digits == {"0", "1", "2", "3", "4", "5", "6", "7", "8", "9"}

DigitVal(c) ==
    CASE c = "0" -> 0 [] c = "1" -> 1 [] c = "2" -> 2 [] c = "3" -> 3
      [] c = "4" -> 4 [] c = "5" -> 5 [] c = "6" -> 6 [] c = "7" -> 7
      [] c = "8" -> 8 [] c = "9" -> 9

\* re.search(r"Your code has been rated at ([0-9\.]+)/10", stdout): the group
\* is one or more characters of [0-9.] right after "rated at ".
ScoreMatches(out) ==
    /\ out.line # <<>>
    /\ \A i \in 1..Len(out.line) : out.line[i] \in Digits \cup {"."}

\* The value of a run of digits.
RECURSIVE DigitsValue(_)
DigitsValue(s) ==
    IF s = <<>> THEN 0
    ELSE 10 * DigitsValue(SubSeq(s, 1, Len(s) - 1)) + DigitVal(s[Len(s)])

\* The position of the first "." of s, Len(s) + 1 when it has none.
RECURSIVE DotPos(_, _)
DotPos(s, i) ==
    IF i > Len(s) THEN i
    ELSE IF s[i] = "." THEN i
    ELSE DotPos(s, i + 1)

\* float(score) of a text with one "." at most and two decimals at most.
ToFloat(s) ==
    LET d == DotPos(s, 1)
        whole == SubSeq(s, 1, d - 1)
        frac == SubSeq(s, d + 1, Len(s))
        scaled == IF Len(frac) = 0 THEN 0
                  ELSE IF Len(frac) = 1 THEN 10 * DigitsValue(frac)
                  ELSE DigitsValue(SubSeq(frac, 1, 2))
    IN 100 * DigitsValue(whole) + scaled

\* Python's truth value of `optional'.
Truthy(o) ==
    CASE o.t = "None" -> FALSE
      [] o.t = "float" -> o.v # 0
      [] o.t = "str" -> TRUE
      [] OTHER -> FALSE

\* "if self.optional and isinstance(self.optional, float)"
FilterMode(o) == Truthy(o) /\ o.t = "float"


\* A faulty register_plugin: a name already registered keeps its first factory.
Registered_KeepFirst(p, name, factory) ==
    [n \in DOMAIN p \cup {name} |-> IF n \in DOMAIN p THEN p[n] ELSE factory]

\* self.plugins[name] = plugin_module
Registered(p, name, factory) ==
    [n \in DOMAIN p \cup {name} |-> IF n = name THEN factory ELSE p[n]]

\* The registry of a new CodeChecker: self.plugins = {}
NoPlugins == [n \in {} |-> "PylintPlugin"]

\* The executable each plugin class looks for and runs.
Exe(cls) ==
    CASE cls = "PylintPlugin" -> "pylint"
      [] cls = "Flake8Plugin" -> "flake8"
      [] cls = "PyDocStylePlugin" -> "pydocstyle"

\* The number of arguments check takes besides self.
CheckParams(cls) == IF cls = "PyDocStylePlugin" THEN 2 ELSE 1

\* The instance each __init__ leaves: PylintPlugin sets verbose and scorelimit,
\* the other two set verbose; none of them sets `optional'.
Construct(cls, verbose) ==
    [cls |-> cls, verbose |-> verbose, scorelimit |-> DefaultScoreLimit,
     optional |-> Absent]

NoPlugin == [cls |-> "none", verbose |-> FALSE, scorelimit |-> DefaultScoreLimit,
             optional |-> Absent]

\* A faulty availability test: the result of shutil.which is ignored.
ToolMissing_Never(found) == FALSE

\* "if not shutil.which(...)": the plugin raises EnvironmentError.
ToolMissing(found) == ~found

\* "if float(score) >= 8.0: score_at_least_eight += 1"
IncrEight(v) == IF v >= EightLimit THEN 1 ELSE 0

\* A faulty count of the scores of at least 9.0: the limit mistyped as 7.0.
IncrNine_Low(v) == IF v >= 700 THEN 1 ELSE 0

\* "if float(score) >= 9.0: score_at_least_nine += 1"
IncrNine(v) == IF v >= NineLimit THEN 1 ELSE 0

\* "if float(score) < self.scorelimit"
BelowFloor(v, limit) == v < limit

\* "if float(score) <= float(self.optional)"
Reported(v, threshold) == v <= threshold

\* sum(map(float, scores))
RECURSIVE SumFloats(_)
SumFloats(ss) ==
    IF ss = <<>> THEN 0 ELSE ToFloat(Head(ss)) + SumFloats(Tail(ss))

\* The summary message: the average is sum / n, kept as the two numbers.
Summary(ss, eight, nine) ==
    [t |-> "summary", sum |-> SumFloats(ss), n |-> Len(ss),
     n8 |-> eight, n9 |-> nine]

\* The values check returns.
RetNone == [t |-> "None"]
RetText(out) == [t |-> "str", out |-> out]
NoRet == [t |-> "unset"]

\* "return result.stdout if not self.verbose else None"
StyleReturn(verbose, out) == IF verbose THEN RetNone ELSE RetText(out)

\* "return result.stdout" after the loop: the output of the last run.
LastOutput(res) == RetText(res[Len(res)])

\* "if stdout:" in main: None and "" are false.
RetTruthy(r) ==
    CASE r.t = "None" -> FALSE
      [] r.t = "str" -> r.out.body # "empty"
      [] r.t = "summary" -> TRUE
      [] OTHER -> FALSE

\* A faulty except clause: EnvironmentError is left out.
MainCatches_ValueOnly(type) == type = "ValueError"

\* "except (ValueError, EnvironmentError)"
MainCatches(type) == type \in {"ValueError", "EnvironmentError"}

NoExc == [type |-> "none", about |-> ""]
Raise(type, about) == [type |-> type, about |-> about]

\* ------------------------------------------------------------------- state

VARIABLES
    entry,       \* how the run started: "none", "cli", "client", "plugin"
    pc,          \* where the run is
    plugins,     \* CodeChecker.plugins
    cc_verbose,  \* CodeChecker.verbose
    cc_optional, \* CodeChecker.optional
    regLog,      \* the register_plugin calls made, in order
    checker,     \* the name given to run_check
    isdir,       \* os.path.isdir(source)
    plugin,      \* the plugin instance
    which,       \* shutil.which: "untested", "found", "missing"
    enumerated,  \* get_source_files has been called
    nfiles,      \* len(source_files)
    idx,         \* the files the loop has started on
    scores,      \* scores
    n8,          \* score_at_least_eight
    n9,          \* score_at_least_nine
    result,      \* the local `result': <<>> while unbound, else <<stdout>>
    outs,        \* the standard output of every subprocess.run, in order
    ret,         \* what check returned
    exc,         \* the exception raised
    printed,     \* everything printed, in order
    mainEnd      \* how main ended: "", "normal", "uncaught"

vars == <<entry, pc, plugins, cc_verbose, cc_optional, regLog, checker, isdir,
          plugin, which, enumerated, nfiles, idx, scores, n8, n9, result, outs,
          ret, exc, printed, mainEnd>>

ccVars == <<plugins, cc_verbose, cc_optional, regLog, checker>>
loopVars == <<nfiles, idx, scores, n8, n9, result>>

Init ==
    /\ entry = "none"
    /\ pc = "init"
    /\ plugins = NoPlugins
    /\ cc_verbose = FALSE
    /\ cc_optional = NoneOpt
    /\ regLog = <<>>
    /\ checker = ""
    /\ isdir = FALSE
    /\ plugin = NoPlugin
    /\ which = "untested"
    /\ enumerated = FALSE
    /\ nfiles = 0
    /\ idx = 0
    /\ scores = <<>>
    /\ n8 = 0
    /\ n9 = 0
    /\ result = <<>>
    /\ outs = <<>>
    /\ ret = NoRet
    /\ exc = NoExc
    /\ printed = <<>>
    /\ mainEnd = ""


\* ------------------------------------------------------------------ prints

\* print(f"Running ... checks on {source}...")
PRunning == [by |-> "plugin", k |-> "running"]
\* print(result.stdout)
PStdout(out) == [by |-> "plugin", k |-> "stdout", out |-> out]
\* print(result.stderr)
PStderr(f) == [by |-> "plugin", k |-> "stderr", f |-> f]
\* print(f"{filename}: {score}")
PScore(f, score) == [by |-> "plugin", k |-> "score", f |-> f, s |-> score]
\* print(f"Pylint check failed since {filename} has a score of ...")
PFailed(f, score, limit) ==
    [by |-> "plugin", k |-> "failed", f |-> f, s |-> score, limit |-> limit]
\* print(f"Error: {e}")
PError(e) == [by |-> "main", k |-> "error", exc |-> e]
\* print(stdout)
PResult(r) == [by |-> "main", k |-> "result", val |-> r]

\* "if self.verbose: print(result.stdout); print(result.stderr)"
VerbosePrints(verbose, out) ==
    IF verbose THEN <<PStdout(out), PStderr(out.file)>> ELSE <<>>

\* ----------------------------------------------------------------- actions

\* main up to the call of run_check: parse the arguments, build the
\* CodeChecker, register the three plugins.
Main(tool, verbose, slt, dir) ==
    /\ pc = "init"
    /\ entry' = "cli"
    /\ cc_verbose' = verbose
    /\ cc_optional' = slt
    /\ plugins' = Registered(Registered(Registered(NoPlugins,
                      "pylint", "PylintPlugin"),
                      "flake8", "Flake8Plugin"),
                      "pydocstyle", "PyDocStylePlugin")
    /\ regLog' = <<[name |-> "pylint", factory |-> "PylintPlugin"],
                   [name |-> "flake8", factory |-> "Flake8Plugin"],
                   [name |-> "pydocstyle", factory |-> "PyDocStylePlugin"]>>
    /\ checker' = tool
    /\ isdir' = dir
    /\ pc' = "run_check"
    /\ UNCHANGED <<plugin, which, enumerated, loopVars, outs, ret, exc, printed,
                   mainEnd>>

\* CodeChecker.__init__ called by a client.
NewCodeChecker(verbose, optional) ==
    /\ pc = "init"
    /\ entry' = "client"
    /\ cc_verbose' = verbose
    /\ cc_optional' = optional
    /\ plugins' = NoPlugins
    /\ pc' = "client"
    /\ UNCHANGED <<regLog, checker, isdir, plugin, which, enumerated, loopVars,
                   outs, ret, exc, printed, mainEnd>>

\* CodeChecker.register_plugin called by a client.
RegisterPlugin(name, factory) ==
    /\ pc = "client"
    /\ Len(regLog) < MaxRegs
    /\ plugins' = Registered(plugins, name, factory)
    /\ regLog' = Append(regLog, [name |-> name, factory |-> factory])
    /\ UNCHANGED <<entry, pc, cc_verbose, cc_optional, checker, isdir, plugin,
                   which, enumerated, loopVars, outs, ret, exc, printed, mainEnd>>

\* A client calls run_check(source, name) on a source that is a file.
ClientRunCheck(name) ==
    /\ pc = "client"
    /\ checker' = name
    /\ isdir' = FALSE
    /\ pc' = "run_check"
    /\ UNCHANGED <<entry, plugins, cc_verbose, cc_optional, regLog, plugin,
                   which, enumerated, loopVars, outs, ret, exc, printed, mainEnd>>

\* CodeChecker.run_check up to the entry of plugin.check(source): the lookup,
\* the construction, and the binding of the one argument of the call.
RunCheck ==
    /\ pc = "run_check"
    /\ IF checker \in DOMAIN plugins
       THEN /\ plugin' = Construct(plugins[checker], cc_verbose)
            /\ IF CheckParams(plugins[checker]) = 1
               THEN pc' = "check" /\ exc' = exc
               ELSE pc' = "raised" /\ exc' = Raise("TypeError", "check")
       ELSE /\ plugin' = plugin
            /\ pc' = "raised"
            /\ exc' = Raise("ValueError", checker)
    /\ UNCHANGED <<entry, ccVars, isdir, which, enumerated, loopVars, outs, ret,
                   printed, mainEnd>>

\* A client of a plugin class: construct it, assign scorelimit and optional on
\* the PylintPlugin instance (or leave them as __init__ did), call check with
\* the arguments its signature takes.
UsePlugin(cls, verbose, limit, opt, dir) ==
    /\ pc = "init"
    /\ entry' = "plugin"
    /\ plugin' = [Construct(cls, verbose) EXCEPT !.scorelimit = limit,
                                                 !.optional = opt]
    /\ isdir' = dir
    /\ pc' = "check"
    /\ UNCHANGED <<ccVars, which, enumerated, loopVars, outs, ret, exc, printed,
                   mainEnd>>

\* The start of every check: the shutil.which test, the "Running" line, and in
\* PylintPlugin the call of get_source_files (one file unless source is a
\* directory, which holds any number of .py files).
CheckEnter(found, n) ==
    /\ pc = "check"
    /\ which' = IF found THEN "found" ELSE "missing"
    /\ IF ToolMissing(found)
       THEN /\ exc' = Raise("EnvironmentError", Exe(plugin.cls))
            /\ pc' = "raised"
            /\ UNCHANGED <<printed, nfiles, enumerated>>
       ELSE /\ printed' = IF plugin.verbose THEN Append(printed, PRunning)
                          ELSE printed
            /\ exc' = exc
            /\ IF plugin.cls = "PylintPlugin"
               THEN /\ n \in (IF isdir THEN 0..MaxFiles ELSE {1})
                    /\ nfiles' = n
                    /\ enumerated' = TRUE
                    /\ pc' = "loop"
               ELSE /\ n = 0
                    /\ pc' = "spawn"
                    /\ UNCHANGED <<nfiles, enumerated>>
    /\ UNCHANGED <<entry, ccVars, isdir, plugin, idx, scores, n8, n9, result,
                   outs, ret, mainEnd>>


\* One iteration of the loop of PylintPlugin.check: run pylint on the next
\* file, print when verbose, search the rating, then filter mode or normal
\* processing.  Reading self.optional raises AttributeError when the instance
\* has no such attribute.
PylintFile ==
    /\ pc = "loop"
    /\ idx < nfiles
    /\ \E out \in PylintOutputs(idx + 1) :
        /\ idx' = idx + 1
        /\ outs' = Append(outs, out)
        /\ result' = <<out>>
        /\ LET f == idx + 1
               shown == printed \o VerbosePrints(plugin.verbose, out)
               score == out.line
           IN IF ~ScoreMatches(out)
              THEN /\ printed' = shown
                   /\ UNCHANGED <<pc, scores, n8, n9, ret, exc>>
              ELSE IF plugin.optional = Absent
              THEN /\ printed' = shown
                   /\ exc' = Raise("AttributeError", "optional")
                   /\ pc' = "raised"
                   /\ UNCHANGED <<scores, n8, n9, ret>>
              ELSE IF FilterMode(plugin.optional)
              THEN /\ printed' = IF Reported(ToFloat(score), plugin.optional.v)
                                 THEN Append(shown, PScore(f, score))
                                 ELSE shown
                   /\ UNCHANGED <<pc, scores, n8, n9, ret, exc>>
              ELSE /\ n8' = n8 + IncrEight(ToFloat(score))
                   /\ n9' = n9 + IncrNine(ToFloat(score))
                   /\ IF BelowFloor(ToFloat(score), plugin.scorelimit)
                      THEN /\ printed' = shown \o <<PScore(f, score),
                                            PFailed(f, score, plugin.scorelimit)>>
                           /\ ret' = RetNone
                           /\ pc' = "returned"
                           /\ UNCHANGED <<scores, exc>>
                      ELSE /\ printed' = Append(shown, PScore(f, score))
                           /\ scores' = Append(scores, score)
                           /\ UNCHANGED <<pc, ret, exc>>
        /\ UNCHANGED <<entry, ccVars, isdir, plugin, which, enumerated, nfiles,
                       mainEnd>>

\* After the loop: the summary when scores is not empty, else result.stdout,
\* which raises UnboundLocalError when the loop never assigned result.
PylintFinish ==
    /\ pc = "loop"
    /\ idx = nfiles
    /\ IF scores # <<>>
       THEN ret' = Summary(scores, n8, n9) /\ pc' = "returned" /\ exc' = exc
       ELSE IF result = <<>>
       THEN exc' = Raise("UnboundLocalError", "result") /\ pc' = "raised"
            /\ ret' = ret
       ELSE ret' = LastOutput(result) /\ pc' = "returned" /\ exc' = exc
    /\ UNCHANGED <<entry, ccVars, isdir, plugin, which, enumerated, loopVars,
                   outs, printed, mainEnd>>

\* Flake8Plugin.check and PyDocStylePlugin.check after the which test: one run
\* of the tool on the source, the prints when verbose, the return.
StyleRun(out) ==
    /\ pc = "spawn"
    /\ out \in StyleOutputs
    /\ outs' = Append(outs, out)
    /\ printed' = printed \o VerbosePrints(plugin.verbose, out)
    /\ ret' = StyleReturn(plugin.verbose, out)
    /\ pc' = "returned"
    /\ UNCHANGED <<entry, ccVars, isdir, plugin, which, enumerated, loopVars,
                   exc, mainEnd>>

\* main after run_check: the except clause, or the else clause.
MainEnd ==
    /\ entry = "cli"
    /\ pc \in {"returned", "raised"}
    /\ pc' = "exit"
    /\ IF pc = "raised"
       THEN IF MainCatches(exc.type)
            THEN printed' = Append(printed, PError(exc)) /\ mainEnd' = "normal"
            ELSE printed' = printed /\ mainEnd' = "uncaught"
       ELSE /\ printed' = IF RetTruthy(ret) THEN Append(printed, PResult(ret))
                          ELSE printed
            /\ mainEnd' = "normal"
    /\ UNCHANGED <<entry, ccVars, isdir, plugin, which, enumerated, loopVars,
                   outs, ret, exc>>

Next ==
    \/ \E tool \in ToolNames, verbose \in BOOLEAN, slt \in CliOptionals,
          dir \in BOOLEAN : Main(tool, verbose, slt, dir)
    \/ \E verbose \in BOOLEAN, optional \in CliOptionals :
          NewCodeChecker(verbose, optional)
    \/ \E name \in ClientNames, factory \in Factories :
          RegisterPlugin(name, factory)
    \/ \E name \in ClientNames : ClientRunCheck(name)
    \/ RunCheck
    \/ \E verbose \in BOOLEAN, limit \in ScoreLimits, opt \in PluginOptionals,
          dir \in BOOLEAN : UsePlugin("PylintPlugin", verbose, limit, opt, dir)
    \/ \E cls \in {"Flake8Plugin", "PyDocStylePlugin"}, verbose \in BOOLEAN :
          UsePlugin(cls, verbose, DefaultScoreLimit, Absent, FALSE)
    \/ \E found \in BOOLEAN, n \in 0..MaxFiles : CheckEnter(found, n)
    \/ PylintFile
    \/ PylintFinish
    \/ \E out \in StyleOutputs : StyleRun(out)
    \/ MainEnd

Spec == Init /\ [][Next]_vars


\* ------------------------------------------------- vocabulary of the claims

\* The tool rated the file: its output has a rating line with a score in [0, 10].
Scored(out) == out.line # <<>> /\ out.val >= 0 /\ out.val <= 1000

\* The positions of the files whose output satisfies P.
ScoredFiles == {i \in 1..Len(outs) : Scored(outs[i])}

RECURSIVE SumVals(_)
SumVals(S) ==
    IF S = {} THEN 0
    ELSE LET i == CHOOSE j \in S : TRUE IN outs[i].val + SumVals(S \ {i})

\* The run of check (or of run_check, or of main) is over.
Ended == pc \in {"returned", "raised", "exit"}

\* A PylintPlugin check whose which test passed is over.
PylintEnded == Ended /\ plugin.cls = "PylintPlugin" /\ which = "found"

\* The prints of kind k.
Prints(k) == {i \in 1..Len(printed) : printed[i].k = k}

\* The files for which a "<file>: <score>" line was printed.
ScoreLineFiles == {printed[i].f : i \in Prints("score")}

\* The last register_plugin call for name n, 0 when there is none.
LastReg(n) ==
    LET S == {i \in 1..Len(regLog) : regLog[i].name = n}
    IN IF S = {} THEN 0 ELSE CHOOSE i \in S : \A j \in S : j <= i

\* ------------------------------------------------------------------ claims

\* C1: run_check on a registered name constructs the plugin registered under
\* that name and, the tool being on the path, completes the check call and
\* returns its result; on a name that is not registered it raises ValueError
\* naming the checker, with no plugin constructed and no check entered.
C1_Dispatch ==
    (Ended /\ entry \in {"cli", "client"}) =>
        IF checker \in DOMAIN plugins
        THEN /\ plugin.cls = plugins[checker]
             /\ which # "missing" => (exc = NoExc /\ ret # NoRet)
        ELSE /\ exc = Raise("ValueError", checker)
             /\ plugin = NoPlugin
             /\ which = "untested"
             /\ outs = <<>>

\* C2: a PylintPlugin run with no threshold and no score below the floor, in
\* which at least one file was rated, returns the summary: the mean of the
\* scores of the rated files, how many are >= 8.0, how many are >= 9.0, and
\* how many were rated.
C2_NormalSummary ==
    (/\ PylintEnded
     /\ plugin.optional \in {Absent, NoneOpt}
     /\ Len(outs) = nfiles
     /\ ScoredFiles # {}
     /\ \A i \in ScoredFiles : outs[i].val >= plugin.scorelimit)
    => /\ exc = NoExc
       /\ ret.t = "summary"
       /\ ret.sum = SumVals(ScoredFiles)
       /\ ret.n = Cardinality(ScoredFiles)
       /\ ret.n8 = Cardinality({i \in ScoredFiles : outs[i].val >= 800})
       /\ ret.n9 = Cardinality({i \in ScoredFiles : outs[i].val >= 900})

\* C3: when a threshold is given to CodeChecker (--scores-less-than), the
\* pylint run is in filter mode: it prints "<file>: <score>" for exactly the
\* rated files whose score is <= the threshold, counts nothing, never aborts
\* and returns no summary.  (The target with no file at all is C8's case.)
C3_FilterMode ==
    (/\ PylintEnded
     /\ entry \in {"cli", "client"}
     /\ cc_optional # NoneOpt
     /\ nfiles > 0)
    => /\ exc = NoExc
       /\ ScoreLineFiles = {i \in ScoredFiles : outs[i].val <= cc_optional.v}
       /\ n8 = 0 /\ n9 = 0 /\ scores = <<>>
       /\ Len(outs) = nfiles
       /\ ret.t = "str"

\* C4: in a PylintPlugin run with no threshold, a rated file whose score is
\* below the configured floor makes check return None, wherever the file is in
\* the list, and no later file is run; with the default floor no run returns
\* None.
C4_FloorAbort ==
    (PylintEnded /\ plugin.optional \in {Absent, NoneOpt}) =>
        /\ (\E i \in ScoredFiles : outs[i].val < plugin.scorelimit)
              => /\ ret = RetNone
                 /\ exc = NoExc
                 /\ Scored(outs[Len(outs)])
                 /\ outs[Len(outs)].val < plugin.scorelimit
        /\ plugin.scorelimit = DefaultScoreLimit => ret # RetNone

\* C5: flake8 and pydocstyle run from the command line, the tool being on the
\* path: when verbose, check returns None and the captured output is printed
\* once in the whole run; when not verbose, check prints nothing and returns
\* the captured output.
C5_StyleVerbosity ==
    (/\ pc = "exit"
     /\ checker \in {"flake8", "pydocstyle"}
     /\ which # "missing")
    => /\ Len(outs) = 1
       /\ IF cc_verbose
          THEN /\ ret = RetNone
               /\ Cardinality(Prints("stdout")) + Cardinality(Prints("result")) = 1
               /\ \A i \in Prints("stdout") : printed[i].out = outs[1]
          ELSE /\ ret = RetText(outs[1])
               /\ \A i \in 1..Len(printed) : printed[i].by # "plugin"


\* C6: in every plugin, when the executable is not on the path, check raises
\* EnvironmentError naming the executable, with no source file enumerated and
\* no process run; and no process is ever run, nor any file enumerated, before
\* the which test has passed.
C6_ToolUnavailable ==
    /\ which = "missing" =>
          /\ Ended
          /\ exc = Raise("EnvironmentError", Exe(plugin.cls))
          /\ ret = NoRet
          /\ outs = <<>>
          /\ ~enumerated
    /\ (outs # <<>> \/ enumerated) => which = "found"

\* C6 witness: PylintPlugin.check on a directory has raised for a missing pylint.
C6_Witness ==
    /\ which = "missing"
    /\ plugin.cls = "PylintPlugin"
    /\ isdir
    /\ exc.type = "EnvironmentError"

\* C7: after any register_plugin calls the registry holds, for each name ever
\* registered and for no other, the factory of the last call for that name;
\* no call raises; and run_check constructs the plugin from that factory.
C7_LastWriteWins ==
    /\ DOMAIN plugins = {regLog[i].name : i \in 1..Len(regLog)}
    /\ \A n \in DOMAIN plugins : plugins[n] = regLog[LastReg(n)].factory
    /\ pc = "client" => exc = NoExc
    /\ (entry \in {"cli", "client"} /\ plugin # NoPlugin) =>
          /\ LastReg(checker) > 0
          /\ plugin.cls = regLog[LastReg(checker)].factory

\* C7 witness: a name registered twice with different factories, another name
\* registered in between, and run_check has constructed the later factory.
C7_Witness ==
    /\ Len(regLog) = 3
    /\ regLog[1].name = checker
    /\ regLog[2].name # checker
    /\ regLog[3].name = checker
    /\ regLog[1].factory # regLog[3].factory
    /\ plugins[regLog[2].name] = regLog[2].factory
    /\ entry = "client"
    /\ plugin.cls = regLog[3].factory

\* C8: a PylintPlugin run in which no file was rated (no output has a rating,
\* or the target has no source file) raises nothing and returns the output of
\* the last run of pylint; a file with no rating does not stop the run.
C8_NoScoreFallback ==
    (PylintEnded /\ ScoredFiles = {}) =>
        /\ exc = NoExc
        /\ Len(outs) = nfiles
        /\ Len(outs) > 0 => ret = RetText(outs[Len(outs)])

\* C9: when main has ended after ValueError or EnvironmentError, it printed
\* one "Error:" line with that error and no result, and ended normally; when
\* the check did not fail, it printed no "Error:" line, and printed the
\* returned text exactly when that text is not empty.
C9_MainErrors ==
    pc = "exit" =>
        /\ exc.type \in {"ValueError", "EnvironmentError"} =>
              /\ mainEnd = "normal"
              /\ Cardinality(Prints("error")) = 1
              /\ \A i \in Prints("error") :
                    printed[i] = PError(exc) /\ i = Len(printed)
              /\ Prints("result") = {}
        /\ exc = NoExc =>
              /\ mainEnd = "normal"
              /\ Prints("error") = {}
              /\ IF ret.t = "summary" \/ (ret.t = "str" /\ ret.out.body = "text")
                 THEN /\ Cardinality(Prints("result")) = 1
                      /\ printed[Len(printed)] = PResult(ret)
                 ELSE Prints("result") = {}

\* C9 witness: main has ended after EnvironmentError, the line printed.
C9_Witness ==
    /\ pc = "exit"
    /\ exc.type = "EnvironmentError"
    /\ mainEnd = "normal"
    /\ Prints("error") # {}

\* The order of the counters, in the loop and in the summary.
C10_Ordered ==
    /\ pc = "loop" => (n9 <= n8 /\ n8 <= Len(scores) /\ Len(scores) <= idx)
    /\ ret.t = "summary" =>
          (ret.n9 <= ret.n8 /\ ret.n8 <= ret.n /\ ret.n <= idx /\ ret.n = Len(scores))

\* What the visit of one file does to the counters.
C10_Step ==
    idx' = idx + 1 =>
        /\ n8' - n8 \in {0, 1}
        /\ n9' - n9 \in {0, 1}
        /\ Len(scores') - Len(scores) \in {0, 1}
        /\ ~Scored(outs'[idx']) => (n8' = n8 /\ n9' = n9 /\ scores' = scores)

\* C10: after every iteration of the pylint loop that did not abort, and in
\* every summary, nine <= eight <= len(scores) <= files visited; a visited
\* file changes each of the three by 0 or 1, and by 0 when it has no rating.
C10_Counters == []C10_Ordered /\ [][C10_Step]_vars

\* C10 witness: three files rated 9.1, 8.2 and 7.9 in some order, all visited.
C10_Witness ==
    /\ pc = "loop"
    /\ idx = 3
    /\ n9 = 1
    /\ n8 = 2
    /\ Len(scores) = 3

====
